---- MODULE Spec2Model ----
(***************************************************************************)
(* A model of the parts of incubator-echarts that src/ holds:              *)
(*   - chart/bar/BarSeries.js : the bar series' progressive overrides and  *)
(*     its defaultOption fragment;                                         *)
(*   - chart/candlestick.js   : the candlestick module's stage             *)
(*     registrations;                                                      *)
(*   - build/build.js         : the build command's run().                 *)
(* The stage registry, the scheduler, the progressive chunk loop and the   *)
(* defaultOption merge live in files outside src/ (echarts.js,             *)
(* stream/Scheduler.js, model/Series.js); they are modelled from spec.md.  *)
(***************************************************************************)
EXTENDS Integers, Sequences, FiniteSets, TLC

VARIABLES
    \* ---- bar series (BarSeries.js) ----
    option,        \* the series' stored option: large, progressive, thresholds
    dataLen,       \* the size of the series' dataset
    call,          \* the method last called on the series model
    ret,           \* what that call returned (a JS value)
    optionBefore   \* the stored option as it was when the call started

VARIABLES
    \* ---- stage registry and scheduler (candlestick.js, spec.md 4.1, 4.2) ----
    registry,      \* the registration entries, in registration order
    loaded,        \* whether the candlestick module's body has run
    registerError, \* the error of the last register call, or "none"
    passPc,        \* "loading" | "running" | "done" | "aborted"
    kindIdx,       \* the kind the running pass is at (index into KindOrder)
    stageIdx,      \* how many stages of that kind have run in this pass
    executed       \* the registry positions of the stages run in this pass

VARIABLES
    \* ---- series extension (BarSeries.js defaultOption, spec.md 4.4) ----
    baseOption,    \* the base type's defaultOption fragment
    derivedType,   \* the `type` of the derived series
    derivedOption, \* the derived type's defaultOption fragment
    mergedOption,  \* the derived type's merged defaultOption
    extended       \* whether extend() has run

VARIABLES
    \* ---- progressive chunk loop (spec.md 4.3) ----
    datasetSize,   \* N, the size of the dataset of the pass
    chunkSize,     \* C, the series' chunk size (its `progressive` option)
    cursor,        \* the chunk cursor of the pass
    chunks,        \* the [start, end) ranges yielded in this pass
    chunkDone      \* whether nextChunk has reported "done" in this pass

VARIABLES
    \* ---- build command (build.js) ----
    commander,      \* the parsed command line
    langFileOk,     \* whether the language file of --lang exists
    opt,            \* the `opt` object of run()
    pc,             \* the statement run() is at
    mode,           \* the mode branch run() took, or "none"
    distRemoved,    \* whether fsExtra.removeSync('./dist') has run
    configsLeft,    \* the configs build() has still to bundle
    built,          \* the number of bundles written and minified
    buildCalled,    \* whether build() has been called
    watching,       \* whether rollup.watch has been started
    checkCalled,    \* whether checkBundleCode has been called
    bundleChecked,  \* whether checkBundleCode has returned normally
    prePublishRan,  \* whether prePublish() has been started
    thrown          \* the error caught by main(), or "none"

barVars == <<option, dataLen, call, ret, optionBefore>>
registryVars ==
    <<registry, loaded, registerError, passPc, kindIdx, stageIdx, executed>>

mergeVars == <<baseOption, derivedType, derivedOption, mergedOption, extended>>
chunkVars == <<datasetSize, chunkSize, cursor, chunks, chunkDone>>

buildVars ==
    <<commander, langFileOk, opt, pc, mode, distRemoved, configsLeft, built,
      buildCalled, watching, checkCalled, bundleChecked, prePublishRan, thrown>>

vars == <<barVars, registryVars, mergeVars, chunkVars, buildVars>>

-----------------------------------------------------------------------------
(* JavaScript values: undefined, a boolean or a number.                    *)

Undefined == [t |-> "undefined", b |-> FALSE, n |-> 0]
JSBool(x) == [t |-> "bool", b |-> x, n |-> 0]
JSNum(k)  == [t |-> "num", b |-> FALSE, n |-> k]

\* ToBoolean: undefined, false and 0 are falsy.
Truthy(v) == \/ (v.t = "bool" /\ v.b)
             \/ (v.t = "num" /\ v.n # 0)

-----------------------------------------------------------------------------
(* Bounds of the bar series model.                                         *)

MaxThresholdUnits == 5    \* thresholds range over -500, 0, 500 .. 2500
MaxSizeUnits == 30        \* dataset sizes range over 0, 100 .. 3000
MaxProgressive == 2       \* numeric `progressive` values: 0, 400, 800

ThresholdValues == {i * 500 : i \in -1..MaxThresholdUnits}
DatasetSizes == {i * 100 : i \in 0..MaxSizeUnits}
LargeValues == {Undefined, JSBool(FALSE), JSBool(TRUE)}
ProgressiveValues ==
    {Undefined, JSBool(FALSE)} \cup {JSNum(i * 400) : i \in 0..MaxProgressive}

Options ==
    [large : LargeValues,
     progressive : ProgressiveValues,
     progressiveThreshold : ThresholdValues,
     largeThreshold : ThresholdValues]

-----------------------------------------------------------------------------
(* BarSeries.js                                                            *)

\* this.get('large') ? this.get('progressive') : false
getProgressiveBase(o) == o.progressive
getProgressive(o) ==
    IF Truthy(o.large) THEN o.progressive ELSE JSBool(FALSE)

\* var progressiveThreshold = this.get('progressiveThreshold');
\* var largeThreshold = this.get('largeThreshold');
\* if (largeThreshold > progressiveThreshold) progressiveThreshold = largeThreshold;
\* return progressiveThreshold;
getProgressiveThresholdBase(o) == o.progressiveThreshold
getProgressiveThresholdMin(o) ==
    IF o.largeThreshold < o.progressiveThreshold
    THEN o.largeThreshold
    ELSE o.progressiveThreshold
getProgressiveThreshold(o) ==
    LET progressiveThreshold == o.progressiveThreshold
        largeThreshold == o.largeThreshold
    IN  IF largeThreshold > progressiveThreshold
        THEN largeThreshold
        ELSE progressiveThreshold

\* Progressive Execution Controller (spec.md 4.3, 4.4): the series' own
\* getProgressive() may disable progressive execution; otherwise the dataset
\* size is compared with the series' getProgressiveThreshold().
shouldUseProgressive(o, size) ==
    /\ Truthy(getProgressive(o))
    /\ size > getProgressiveThreshold(o)

InitBar ==
    /\ option \in Options
    /\ dataLen \in DatasetSizes
    /\ call = "none"
    /\ ret = Undefined
    /\ optionBefore = option

\* seriesModel.getProgressive()
CallGetProgressive ==
    /\ call' = "getProgressive"
    /\ ret' = getProgressive(option)
    /\ optionBefore' = option
    /\ UNCHANGED <<option, dataLen>>
    /\ UNCHANGED <<registryVars, mergeVars, chunkVars, buildVars>>

\* seriesModel.getProgressiveThreshold()
CallGetProgressiveThreshold ==
    /\ call' = "getProgressiveThreshold"
    /\ ret' = JSNum(getProgressiveThreshold(option))
    /\ optionBefore' = option
    /\ UNCHANGED <<option, dataLen>>
    /\ UNCHANGED <<registryVars, mergeVars, chunkVars, buildVars>>

\* shouldUseProgressive(seriesModel, datasetSize)
CallShouldUseProgressive ==
    /\ call' = "shouldUseProgressive"
    /\ ret' = JSBool(shouldUseProgressive(option, dataLen))
    /\ optionBefore' = option
    /\ UNCHANGED <<option, dataLen>>
    /\ UNCHANGED <<registryVars, mergeVars, chunkVars, buildVars>>

NextBar ==
    \/ CallGetProgressive
    \/ CallGetProgressiveThreshold
    \/ CallShouldUseProgressive

-----------------------------------------------------------------------------
(* Stage registry and scheduler.                                           *)

MaxOtherRegistrations == 2   \* register calls made by modules other than candlestick
MaxPriorityUnits == 1        \* their priorities: 10 and STATISTIC

\* echarts.PRIORITY.PROCESSOR.STATISTIC
STATISTIC == 5000
\* The priority of a stage registered without one.
DefaultPriority == 3000

KindOrder == <<"preprocess", "process", "visual", "layout">>
Kinds == {KindOrder[i] : i \in 1..Len(KindOrder)}
OtherHandlers == {"A", "B"}
OtherPriorities ==
    {i * 10 : i \in 1..MaxPriorityUnits} \cup {STATISTIC}

Entry(kind, priority, handler) ==
    [kind |-> kind, priority |-> priority, handler |-> handler]

\* register(kind, priority, handler) fails only when the same named stage
\* re-registers the same (kind, priority) pair.
IsDuplicate(reg, kind, priority, handler) ==
    \E i \in 1..Len(reg) : reg[i] = Entry(kind, priority, handler)

\* register(kind, priority, handler): appends an entry.
registerUnstable(reg, kind, priority, handler) ==
    IF IsDuplicate(reg, kind, priority, handler)
    THEN reg
    ELSE <<Entry(kind, priority, handler)>> \o reg
register(reg, kind, priority, handler) ==
    IF IsDuplicate(reg, kind, priority, handler)
    THEN reg
    ELSE Append(reg, Entry(kind, priority, handler))

registerPreprocessor(reg, fn) == register(reg, "preprocess", DefaultPriority, fn)
registerProcessor(reg, priority, fn) == register(reg, "process", priority, fn)
registerVisual(reg, fn) == register(reg, "visual", DefaultPriority, fn)
registerLayout(reg, fn) == register(reg, "layout", DefaultPriority, fn)

\* candlestick.js, lines 31-39: the module's four registration statements.
candlestickModuleSampleAsLayout(reg) ==
    registerLayout(
        registerLayout(
            registerVisual(
                registerPreprocessor(reg, "preprocessor"),
                "candlestickVisual"),
            "candlestickLayout"),
        "dataSample")
candlestickModule(reg) ==
    registerProcessor(
        registerLayout(
            registerVisual(
                registerPreprocessor(reg, "preprocessor"),
                "candlestickVisual"),
            "candlestickLayout"),
        STATISTIC, "dataSample")

\* The registry positions of the entries of one kind, in registration order.
RECURSIVE PositionsOf(_, _, _)
PositionsOf(reg, kind, i) ==
    IF i > Len(reg) THEN <<>>
    ELSE IF reg[i].kind = kind
         THEN <<i>> \o PositionsOf(reg, kind, i + 1)
         ELSE PositionsOf(reg, kind, i + 1)

\* Insert position p into the sorted sequence s after every position whose
\* priority is not greater (a stable insertion).
RECURSIVE InsertStable(_, _, _)
InsertStable(reg, s, p) ==
    IF s = <<>> THEN <<p>>
    ELSE IF reg[Head(s)].priority <= reg[p].priority
         THEN <<Head(s)>> \o InsertStable(reg, Tail(s), p)
         ELSE <<p>> \o s

RECURSIVE SortStable(_, _)
SortStable(reg, ps) ==
    IF ps = <<>> THEN <<>>
    ELSE InsertStable(reg, SortStable(reg, SubSeq(ps, 1, Len(ps) - 1)), ps[Len(ps)])

\* getStages(kind): the stages of a kind, ascending by priority, then by
\* registration order; given as registry positions.
getStages(reg, kind) == SortStable(reg, PositionsOf(reg, kind, 1))

InitRegistry ==
    /\ registry = <<>>
    /\ loaded = FALSE
    /\ registerError = "none"
    /\ passPc = "loading"
    /\ kindIdx = 1
    /\ stageIdx = 0
    /\ executed = <<>>

OtherCount(reg) ==
    Cardinality({i \in 1..Len(reg) : reg[i].handler \in OtherHandlers})

\* A register call of some other chart module, at module-load time.
Register(kind, priority, handler) ==
    /\ passPc = "loading"
    /\ OtherCount(registry) < MaxOtherRegistrations
    /\ registry' = register(registry, kind, priority, handler)
    /\ registerError' =
          IF IsDuplicate(registry, kind, priority, handler)
          THEN "DuplicatePriorityError" ELSE "none"
    /\ UNCHANGED <<loaded, passPc, kindIdx, stageIdx, executed>>
    /\ UNCHANGED <<barVars, mergeVars, chunkVars, buildVars>>

\* The body of candlestick.js runs, once, at module-load time.
LoadCandlestick ==
    /\ passPc = "loading"
    /\ ~loaded
    /\ registry' = candlestickModule(registry)
    /\ loaded' = TRUE
    /\ registerError' = "none"
    /\ UNCHANGED <<passPc, kindIdx, stageIdx, executed>>
    /\ UNCHANGED <<barVars, mergeVars, chunkVars, buildVars>>

\* run(chartState) starts a render pass; the registry is read-only from here.
StartPass ==
    /\ passPc \in {"loading", "done", "aborted"}
    /\ passPc' = "running"
    /\ kindIdx' = 1
    /\ stageIdx' = 0
    /\ executed' = <<>>
    /\ UNCHANGED <<registry, loaded, registerError>>
    /\ UNCHANGED <<barVars, mergeVars, chunkVars, buildVars>>

\* The pass runs the next stage of the current kind, or moves to the next
\* kind when the current one is exhausted, or ends after the last kind.
StepPass ==
    /\ passPc = "running"
    /\ LET stages == getStages(registry, KindOrder[kindIdx])
       IN  IF stageIdx < Len(stages)
           THEN /\ executed' = Append(executed, stages[stageIdx + 1])
                /\ stageIdx' = stageIdx + 1
                /\ UNCHANGED <<kindIdx, passPc>>
           ELSE IF kindIdx < Len(KindOrder)
           THEN /\ kindIdx' = kindIdx + 1
                /\ stageIdx' = 0
                /\ UNCHANGED <<executed, passPc>>
           ELSE /\ passPc' = "done"
                /\ UNCHANGED <<executed, kindIdx, stageIdx>>
    /\ UNCHANGED <<registry, loaded, registerError>>
    /\ UNCHANGED <<barVars, mergeVars, chunkVars, buildVars>>

\* A stage throws: the rest of the series' pipeline is aborted for this pass.
StageThrows ==
    /\ passPc = "running"
    /\ stageIdx < Len(getStages(registry, KindOrder[kindIdx]))
    /\ passPc' = "aborted"
    /\ UNCHANGED <<registry, loaded, registerError, kindIdx, stageIdx, executed>>
    /\ UNCHANGED <<barVars, mergeVars, chunkVars, buildVars>>

NextRegistry ==
    \/ \E kind \in Kinds, priority \in OtherPriorities, handler \in OtherHandlers :
          Register(kind, priority, handler)
    \/ LoadCandlestick
    \/ StartPass
    \/ StepPass
    \/ StageThrows

-----------------------------------------------------------------------------
(* Series extension: defaultOption fragments.                              *)

\* An option value: a primitive, written as in the source, or an object.
NoFields == [k \in {} |-> ""]
Prim(s) == [t |-> "prim", s |-> s, fields |-> NoFields]
Obj(f) == [t |-> "obj", s |-> "", fields |-> f]

\* BarSeries.js, lines 63-77.
backgroundStyle ==
    [color |-> "rgba(180, 180, 180, 0.2)",
     borderColor |-> "null",
     borderWidth |-> "0",
     borderType |-> "solid",
     borderRadius |-> "0",
     shadowBlur |-> "0",
     shadowColor |-> "null",
     shadowOffsetX |-> "0",
     shadowOffsetY |-> "0",
     opacity |-> "1",
     sampling |-> "none",
     samplingRate |-> "1"]

\* BarSeries.js, lines 53-78.
defaultOptionNoClip ==
    [roundCap |-> Prim("false"),
     showBackground |-> Prim("false"),
     backgroundStyle |-> Obj(backgroundStyle)]
defaultOption ==
    [clip |-> Prim("true"),
     roundCap |-> Prim("false"),
     showBackground |-> Prim("false"),
     backgroundStyle |-> Obj(backgroundStyle)]

\* The keys and values a base type's fragment is drawn from.
BaseKeys == {"clip", "showBackground", "backgroundStyle", "large", "barMinHeight"}
BaseValues == {Prim("true"), Prim("false"), Obj([color |-> "red"])}
BaseFragments ==
    UNION {[ks -> BaseValues] : ks \in SUBSET BaseKeys}

\* The derived types: the bar series, and a type declaring only `clip: false`.
DerivedTypes == {"series.bar", "series.clipOnly"}
defaultOptionOf(type) ==
    IF type = "series.bar" THEN defaultOption ELSE [clip |-> Prim("false")]

\* A fragment merged over its base type's fragment: child keys override
\* same-named parent keys; unspecified keys inherit.
merge(child, base) ==
    [k \in DOMAIN child \cup DOMAIN base |->
        IF k \in DOMAIN child THEN child[k] ELSE base[k]]

InitMerge ==
    /\ baseOption \in BaseFragments
    /\ derivedType \in DerivedTypes
    /\ derivedOption = defaultOptionOf(derivedType)
    /\ mergedOption = NoFields
    /\ extended = FALSE

\* Base.extend({defaultOption: ...})
Extend ==
    /\ ~extended
    /\ mergedOption' = merge(derivedOption, baseOption)
    /\ extended' = TRUE
    /\ UNCHANGED <<baseOption, derivedType, derivedOption>>
    /\ UNCHANGED <<barVars, registryVars, chunkVars, buildVars>>

NextMerge == Extend

-----------------------------------------------------------------------------
(* Progressive chunk loop.                                                 *)

MaxDatasetSize == 9    \* N ranges over 0..MaxDatasetSize
MaxChunkSize == 4      \* C ranges over 1..MaxChunkSize

Min(a, b) == IF a < b THEN a ELSE b

\* nextChunk(cursor, datasetSize, chunkSize): the next [start, end) range, or
\* the sentinel "done" when cursor >= datasetSize.
nextChunkNoClamp(cur, n, c) ==
    IF cur >= n
    THEN [done |-> TRUE, start |-> cur, end |-> cur]
    ELSE [done |-> FALSE, start |-> cur, end |-> cur + c]
nextChunk(cur, n, c) ==
    IF cur >= n
    THEN [done |-> TRUE, start |-> cur, end |-> cur]
    ELSE [done |-> FALSE, start |-> cur, end |-> Min(cur + c, n)]

InitChunk ==
    /\ datasetSize \in 0..MaxDatasetSize
    /\ chunkSize \in 1..MaxChunkSize
    /\ cursor = 0
    /\ chunks = <<>>
    /\ chunkDone = FALSE

\* A render pass starts (possibly superseding one in flight): the progressive
\* state is reset.
StartChunkPass ==
    /\ \E n \in 0..MaxDatasetSize : datasetSize' = n
    /\ cursor' = 0
    /\ chunks' = <<>>
    /\ chunkDone' = FALSE
    /\ UNCHANGED chunkSize
    /\ UNCHANGED <<barVars, registryVars, mergeVars, buildVars>>

\* The chunk loop takes its next step.
NextChunkStep ==
    /\ ~chunkDone
    /\ LET r == nextChunk(cursor, datasetSize, chunkSize)
       IN  IF r.done
           THEN /\ chunkDone' = TRUE
                /\ UNCHANGED <<cursor, chunks>>
           ELSE /\ chunks' = Append(chunks, <<r.start, r.end>>)
                /\ cursor' = r.end
                /\ UNCHANGED chunkDone
    /\ UNCHANGED <<datasetSize, chunkSize>>
    /\ UNCHANGED <<barVars, registryVars, mergeVars, buildVars>>

NextChunk ==
    \/ StartChunkPass
    \/ NextChunkStep

-----------------------------------------------------------------------------
(* build.js: the build command.                                            *)

\* An option that was not given on the command line is undefined.
NotGiven == "<undefined>"
PathValues == {NotGiven, "", "my/file.js"}
LangValues == {NotGiven, "en", "my/lang.js"}
FlagValues == {NotGiven, "true"}

\* commander.parse(process.argv): the options run() reads.
CommandLines ==
    [watch : FlagValues, release : FlagValues, prepublish : FlagValues,
     removedev : FlagValues, min : FlagValues,
     lang : LangValues, input : PathValues, output : PathValues]

\* `x != null` and ToBoolean(x) for an option value.
NotNull(x) == x # NotGiven
Bang(x) == x = NotGiven \/ x = ""

\* let isWatch = !!commander.watch; ...
isWatch == ~Bang(commander.watch)
isRelease == ~Bang(commander.release)
isPrePublish == ~Bang(commander.prepublish)

IOError == "input and output must be both set."
LangOutputError ==
    "-o or --output must be specified if using a file path in --lang."
LangFileError == "File <path> does not exist yet. Contribution is welcome!"
BundleError == "rollup or minify error"
PrePublishError == "prePublish error"
PathReferenceError == "ReferenceError: path is not defined"
EmptyBundleError == "dist/echarts.min.js is empty"

\* validateIO(input, output): whether it throws.
validateIOInputOnly(input, output) ==
    NotNull(input) /\ ~NotNull(output)
validateIO(input, output) ==
    \/ (NotNull(input) /\ ~NotNull(output))
    \/ (~NotNull(input) /\ NotNull(output))

\* ecLangPlugin.getLangFileInfo(lang).isOuter: a path, not a shortcut.
isOuter(lang) == lang = "my/lang.js"

\* validateLang(lang, output): the error it throws, or "none".
validateLang(lang, output, fileOk) ==
    IF Bang(lang) THEN "none"
    ELSE IF isOuter(lang) /\ Bang(output) THEN LangOutputError
    ELSE IF ~fileOk THEN LangFileError
    ELSE "none"

\* normalizeParams(opt): opt.removeDev after the call.
normalizeParams(o) ==
    [o EXCEPT !.removeDev =
        IF o.removeDev = NotGiven
        THEN (IF Bang(o.min) THEN "false" ELSE "true")
        ELSE o.removeDev]

\* The release branch's configs: 3 x 3 echarts bundles, bmap and dataTool.
NumReleaseConfigs == 11

\* build.js requires 'path' as nodePath; no binding named `path` exists.
PathBound == FALSE

InitBuild ==
    /\ commander \in CommandLines
    /\ langFileOk \in BOOLEAN
    /\ opt = [lang |-> commander.lang, min |-> commander.min,
              input |-> commander.input, output |-> commander.output,
              removeDev |-> commander.removedev]
    /\ pc = "validateIO"
    /\ mode = "none"
    /\ distRemoved = FALSE
    /\ configsLeft = 0
    /\ built = 0
    /\ buildCalled = FALSE
    /\ watching = FALSE
    /\ checkCalled = FALSE
    /\ bundleChecked = FALSE
    /\ prePublishRan = FALSE
    /\ thrown = "none"

buildEffects ==
    <<mode, distRemoved, configsLeft, built, buildCalled, watching,
      checkCalled, bundleChecked, prePublishRan>>

\* run(), line 148.
ValidateIO ==
    /\ pc = "validateIO"
    /\ IF validateIO(opt.input, opt.output)
       THEN pc' = "failed" /\ thrown' = IOError
       ELSE pc' = "validateLang" /\ UNCHANGED thrown
    /\ UNCHANGED <<commander, langFileOk, opt, buildEffects>>
    /\ UNCHANGED <<barVars, registryVars, mergeVars, chunkVars>>

\* run(), line 149.
ValidateLang ==
    /\ pc = "validateLang"
    /\ LET e == validateLang(opt.lang, opt.output, langFileOk)
       IN  IF e # "none"
           THEN pc' = "failed" /\ thrown' = e
           ELSE pc' = "normalizeParams" /\ UNCHANGED thrown
    /\ UNCHANGED <<commander, langFileOk, opt, buildEffects>>
    /\ UNCHANGED <<barVars, registryVars, mergeVars, chunkVars>>

\* run(), line 151.
NormalizeParams ==
    /\ pc = "normalizeParams"
    /\ opt' = normalizeParams(opt)
    /\ pc' = "clearDist"
    /\ UNCHANGED <<commander, langFileOk, thrown, buildEffects>>
    /\ UNCHANGED <<barVars, registryVars, mergeVars, chunkVars>>

\* run(), lines 153-156.
ClearDist ==
    /\ pc = "clearDist"
    /\ distRemoved' = isRelease
    /\ pc' = "selectMode"
    /\ UNCHANGED <<commander, langFileOk, opt, thrown, mode, configsLeft,
                   built, buildCalled, watching, checkCalled, bundleChecked,
                   prePublishRan>>
    /\ UNCHANGED <<barVars, registryVars, mergeVars, chunkVars>>

\* run(), lines 158-198: the mode branch.  watch() returns at once; the
\* other branches go on to prePublish() or to build(configs).
SelectMode ==
    /\ pc = "selectMode"
    /\ IF isWatch
       THEN /\ mode' = "watch"
            /\ watching' = TRUE
            /\ pc' = "done"
            /\ UNCHANGED <<configsLeft, buildCalled>>
       ELSE IF isPrePublish
       THEN /\ mode' = "prepublish"
            /\ pc' = "prePublish"
            /\ UNCHANGED <<watching, configsLeft, buildCalled>>
       ELSE IF isRelease
       THEN /\ mode' = "release"
            /\ configsLeft' = NumReleaseConfigs
            /\ buildCalled' = TRUE
            /\ pc' = "build"
            /\ UNCHANGED watching
       ELSE /\ mode' = "single"
            /\ configsLeft' = 1
            /\ buildCalled' = TRUE
            /\ pc' = "build"
            /\ UNCHANGED watching
    /\ UNCHANGED <<commander, langFileOk, opt, thrown, distRemoved, built,
                   checkCalled, bundleChecked, prePublishRan>>
    /\ UNCHANGED <<barVars, registryVars, mergeVars, chunkVars>>

\* build(configs), lines 265-313: one iteration of the loop, which bundles,
\* writes and minifies one config or throws; after the last one run() goes on.
Build ==
    /\ pc = "build"
    /\ IF configsLeft = 0
       THEN /\ pc' = IF mode = "release" \/ opt.removeDev = "true"
                     THEN "checkBundleCode" ELSE "done"
            /\ UNCHANGED <<configsLeft, built, thrown>>
       ELSE \E ok \in BOOLEAN :
            IF ok
            THEN /\ configsLeft' = configsLeft - 1
                 /\ built' = built + 1
                 /\ UNCHANGED <<pc, thrown>>
            ELSE /\ pc' = "failed"
                 /\ thrown' = BundleError
                 /\ UNCHANGED <<configsLeft, built>>
    /\ UNCHANGED <<commander, langFileOk, opt, mode, distRemoved, buildCalled,
                   watching, checkCalled, bundleChecked, prePublishRan>>
    /\ UNCHANGED <<barVars, registryVars, mergeVars, chunkVars>>

\* checkBundleCode(), lines 210-219: `path.join(...)` is evaluated first.
CheckBundleCode ==
    /\ pc = "checkBundleCode"
    /\ checkCalled' = TRUE
    /\ IF ~PathBound
       THEN /\ pc' = "failed"
            /\ thrown' = PathReferenceError
            /\ UNCHANGED bundleChecked
       ELSE \E codeOk \in BOOLEAN :
            IF codeOk
            THEN /\ bundleChecked' = TRUE
                 /\ pc' = IF mode = "release" THEN "prePublish" ELSE "done"
                 /\ UNCHANGED thrown
            ELSE /\ pc' = "failed"
                 /\ thrown' = EmptyBundleError
                 /\ UNCHANGED bundleChecked
    /\ UNCHANGED <<commander, langFileOk, opt, mode, distRemoved, configsLeft,
                   built, buildCalled, watching, prePublishRan>>
    /\ UNCHANGED <<barVars, registryVars, mergeVars, chunkVars>>

\* await prePublish(), lines 162 and 189.
PrePublish ==
    /\ pc = "prePublish"
    /\ prePublishRan' = TRUE
    /\ \E ok \in BOOLEAN :
         IF ok
         THEN pc' = "done" /\ UNCHANGED thrown
         ELSE pc' = "failed" /\ thrown' = PrePublishError
    /\ UNCHANGED <<commander, langFileOk, opt, mode, distRemoved, configsLeft,
                   built, buildCalled, watching, checkCalled, bundleChecked>>
    /\ UNCHANGED <<barVars, registryVars, mergeVars, chunkVars>>

NextBuild ==
    \/ ValidateIO
    \/ ValidateLang
    \/ NormalizeParams
    \/ ClearDist
    \/ SelectMode
    \/ Build
    \/ CheckBundleCode
    \/ PrePublish

-----------------------------------------------------------------------------
IdleBar ==
    /\ option = [large |-> Undefined, progressive |-> Undefined,
                 progressiveThreshold |-> 0, largeThreshold |-> 0]
    /\ dataLen = 0
    /\ call = "none"
    /\ ret = Undefined
    /\ optionBefore = option

IdleMerge ==
    /\ baseOption = NoFields
    /\ derivedType = "none"
    /\ derivedOption = NoFields
    /\ mergedOption = NoFields
    /\ extended = FALSE

IdleChunk ==
    /\ datasetSize = 0
    /\ chunkSize = 1
    /\ cursor = 0
    /\ chunks = <<>>
    /\ chunkDone = FALSE

IdleBuild ==
    /\ commander = [watch |-> NotGiven, release |-> NotGiven,
                    prepublish |-> NotGiven, removedev |-> NotGiven,
                    min |-> NotGiven, lang |-> NotGiven,
                    input |-> NotGiven, output |-> NotGiven]
    /\ langFileOk = TRUE
    /\ opt = [lang |-> NotGiven, min |-> NotGiven, input |-> NotGiven,
              output |-> NotGiven, removeDev |-> NotGiven]
    /\ pc = "idle"
    /\ mode = "none"
    /\ distRemoved = FALSE
    /\ configsLeft = 0
    /\ built = 0
    /\ buildCalled = FALSE
    /\ watching = FALSE
    /\ checkCalled = FALSE
    /\ bundleChecked = FALSE
    /\ prePublishRan = FALSE
    /\ thrown = "none"

BarInit == InitBar /\ InitRegistry /\ IdleMerge /\ IdleChunk /\ IdleBuild
RegistryInit == InitRegistry /\ IdleBar /\ IdleMerge /\ IdleChunk /\ IdleBuild
MergeInit == InitMerge /\ IdleBar /\ InitRegistry /\ IdleChunk /\ IdleBuild
ChunkInit == InitChunk /\ IdleBar /\ InitRegistry /\ IdleMerge /\ IdleBuild
BuildInit == InitBuild /\ IdleBar /\ InitRegistry /\ IdleMerge /\ IdleChunk

SpecBar == BarInit /\ [][NextBar]_vars
SpecRegistry == RegistryInit /\ [][NextRegistry]_vars
SpecMerge == MergeInit /\ [][NextMerge]_vars
SpecChunk == ChunkInit /\ [][NextChunk]_vars
SpecBuild == BuildInit /\ [][NextBuild]_vars

-----------------------------------------------------------------------------
(* Properties.                                                             *)

Max(a, b) == IF a >= b THEN a ELSE b
CeilDiv(n, c) == (n + c - 1) \div c
Range(f) == {f[x] : x \in DOMAIN f}

\* C1: for a bar series whose `large` option is false or unset,
\* getProgressive() returns false and progressive execution is not selected,
\* whatever `progressive`, the thresholds and the dataset size are.
C1_NoProgressiveUnlessLarge ==
    ~Truthy(option.large) =>
        /\ call = "getProgressive" => ret = JSBool(FALSE)
        /\ call = "shouldUseProgressive" => ret = JSBool(FALSE)

C1_Witness ==
    /\ call = "getProgressive"
    /\ option.large = Undefined
    /\ option.progressive = JSNum(400)
    /\ option.progressiveThreshold = 1500
    /\ option.largeThreshold = 500
    /\ dataLen = 2500
    /\ ret = JSBool(FALSE)

\* C2: with `large` set, getProgressiveThreshold() returns
\* max(largeThreshold, progressiveThreshold), and the call leaves the stored
\* option as it was.
C2_ThresholdIsMax ==
    (call = "getProgressiveThreshold" /\ Truthy(option.large)) =>
        /\ ret = JSNum(Max(option.largeThreshold, option.progressiveThreshold))
        /\ option = optionBefore

C2_Witness ==
    /\ call = "getProgressiveThreshold"
    /\ option.large = JSBool(TRUE)
    /\ option.largeThreshold = 2000
    /\ option.progressiveThreshold = 1500
    /\ ret = JSNum(2000)

\* C3 as stated: with `large` = true, progressive mode is used iff the dataset
\* size is strictly greater than max(largeThreshold, progressiveThreshold),
\* whatever the value of `progressive`.
C3_ProgressiveWhateverOption ==
    (call = "shouldUseProgressive" /\ option.large = JSBool(TRUE)) =>
        (ret = JSBool(TRUE) <=>
            dataLen > Max(option.largeThreshold, option.progressiveThreshold))

\* C3 as amended: with `large` = true and a truthy `progressive` (a chunk
\* size), progressive mode is used iff the dataset size is strictly greater
\* than max(largeThreshold, progressiveThreshold); with a falsy `progressive`
\* (false, 0 or unset) it is never used.
C3_ProgressiveIffAboveThreshold ==
    (call = "shouldUseProgressive" /\ option.large = JSBool(TRUE)) =>
        IF Truthy(option.progressive)
        THEN ret = JSBool(TRUE) <=>
                dataLen > Max(option.largeThreshold, option.progressiveThreshold)
        ELSE ret = JSBool(FALSE)

C3_Witness ==
    /\ call = "shouldUseProgressive"
    /\ option.large = JSBool(TRUE)
    /\ option.progressive = JSNum(400)
    /\ option.largeThreshold = 2000
    /\ option.progressiveThreshold = 1500
    /\ dataLen = 2500
    /\ ret = JSBool(TRUE)

\* The handlers run so far in the pass, in execution order.
ExecutedHandlers == [i \in 1..Len(executed) |-> registry[executed[i]].handler]

\* C4: once the candlestick module is loaded, its down-sampling processor is
\* registered exactly once, in the `process` kind at the STATISTIC priority,
\* and in every render pass it has run before the candlestick visual or
\* layout stage runs.
C4_SampleBeforeVisualAndLayout ==
    loaded =>
        /\ \A i \in 1..Len(registry) :
              registry[i].handler = "dataSample" =>
                  registry[i] = Entry("process", STATISTIC, "dataSample")
        /\ Cardinality({i \in 1..Len(registry) :
                            registry[i].handler = "dataSample"}) = 1
        /\ \A i \in 1..Len(executed) :
              ExecutedHandlers[i] \in {"candlestickVisual", "candlestickLayout"} =>
                  \E j \in 1..(i - 1) : ExecutedHandlers[j] = "dataSample"

C4_Witness ==
    /\ loaded
    /\ passPc = "done"
    /\ {"dataSample", "candlestickVisual", "candlestickLayout"}
          \subseteq Range(ExecutedHandlers)
    /\ \E i, j \in 1..Len(registry) :
          /\ i < j
          /\ registry[i].handler = "candlestickLayout"
          /\ registry[j].handler = "dataSample"

KindIndex(kind) == CHOOSE i \in 1..Len(KindOrder) : KindOrder[i] = kind

\* Registry position p comes before position q within one kind: a smaller
\* priority, or the same priority and an earlier registration.
Before(reg, p, q) ==
    \/ reg[p].priority < reg[q].priority
    \/ (reg[p].priority = reg[q].priority /\ p < q)

StagesOrdered ==
    /\ \A kind \in Kinds :
          LET st == getStages(registry, kind)
          IN  /\ Range(st) = {p \in 1..Len(registry) : registry[p].kind = kind}
              /\ \A i, j \in 1..Len(st) : i < j => Before(registry, st[i], st[j])
    /\ \A i, j \in 1..Len(executed) :
          i < j =>
              LET p == executed[i]
                  q == executed[j]
              IN  \/ KindIndex(registry[p].kind) < KindIndex(registry[q].kind)
                  \/ (registry[p].kind = registry[q].kind /\ Before(registry, p, q))

AppendOnly ==
    /\ Len(registry') >= Len(registry)
    /\ SubSeq(registry', 1, Len(registry)) = registry

\* C5: after any sequence of register calls the stages of a kind are returned
\* and executed in ascending priority order, equal priorities in registration
\* order, and no step removes or reorders an entry of the registry.
C5_StableAscendingAppendOnly == [](StagesOrdered) /\ [][AppendOnly]_vars

C5_Witness ==
    /\ registry = <<Entry("visual", 10, "A"), Entry("visual", 10, "B")>>
    /\ getStages(registry, "visual") = <<1, 2>>
    /\ passPc = "done"
    /\ ExecutedHandlers = <<"A", "B">>

\* C6: the merged defaultOption holds, for every key, the derived value when
\* the derived type declares the key and the base value otherwise; the bar
\* series' clip, roundCap, showBackground and backgroundStyle override the
\* base's, and a type declaring only `clip: false` inherits the rest.
C6_DerivedOverridesBase ==
    extended =>
        /\ DOMAIN mergedOption = DOMAIN derivedOption \cup DOMAIN baseOption
        /\ \A k \in DOMAIN baseOption \ DOMAIN derivedOption :
              mergedOption[k] = baseOption[k]
        /\ \A k \in DOMAIN derivedOption : mergedOption[k] = derivedOption[k]
        /\ derivedType = "series.bar" =>
              /\ {"clip", "roundCap", "showBackground", "backgroundStyle"}
                    \subseteq DOMAIN mergedOption
              /\ mergedOption["clip"] = Prim("true")
              /\ mergedOption["roundCap"] = Prim("false")
              /\ mergedOption["showBackground"] = Prim("false")
              /\ mergedOption["backgroundStyle"].t = "obj"
              /\ mergedOption["backgroundStyle"].fields["color"]
                    = "rgba(180, 180, 180, 0.2)"
              /\ \A k \in DOMAIN baseOption \
                        {"clip", "roundCap", "showBackground", "backgroundStyle"} :
                    mergedOption[k] = baseOption[k]
        /\ derivedType = "series.clipOnly" =>
              /\ "clip" \in DOMAIN mergedOption
              /\ mergedOption["clip"] = Prim("false")
              /\ \A k \in DOMAIN baseOption \ {"clip"} :
                    mergedOption[k] = baseOption[k]

C6_Witness ==
    /\ extended
    /\ derivedType = "series.clipOnly"
    /\ "showBackground" \in DOMAIN baseOption
    /\ "clip" \in DOMAIN baseOption
    /\ baseOption["showBackground"] = Prim("true")
    /\ baseOption["clip"] = Prim("true")
    /\ mergedOption["clip"] = Prim("false")
    /\ mergedOption["showBackground"] = Prim("true")

ChunkLen(i) == chunks[i][2] - chunks[i][1]

\* C7: the chunks yielded in a pass start at 0 and are contiguous, each of
\* size C except possibly the last; when the loop reports done there are
\* ceil(N/C) of them and they cover [0, N) exactly; a pass that has yielded
\* nothing yet has its cursor at 0.
C7_ChunksPartition ==
    /\ cursor = (IF chunks = <<>> THEN 0 ELSE chunks[Len(chunks)][2])
    /\ \A i \in 1..Len(chunks) :
          /\ chunks[i][1] = (IF i = 1 THEN 0 ELSE chunks[i - 1][2])
          /\ ChunkLen(i) >= 1
          /\ ChunkLen(i) <= chunkSize
          /\ chunks[i][2] <= datasetSize
          /\ i < Len(chunks) => ChunkLen(i) = chunkSize
    /\ chunkDone =>
          /\ Len(chunks) = CeilDiv(datasetSize, chunkSize)
          /\ cursor = datasetSize
          /\ chunks # <<>> =>
                ChunkLen(Len(chunks)) =
                    (IF datasetSize % chunkSize = 0
                     THEN chunkSize ELSE datasetSize % chunkSize)

C7_Witness ==
    /\ chunkDone
    /\ datasetSize = 7
    /\ chunkSize = 3
    /\ chunks = <<<<0, 3>>, <<3, 6>>, <<6, 7>>>>

ExactlyOneOfIO ==
    Cardinality({k \in {"input", "output"} : commander[k] # NotGiven}) = 1

NoBuildSideEffect ==
    /\ ~distRemoved
    /\ ~buildCalled
    /\ built = 0
    /\ ~watching
    /\ ~checkCalled
    /\ ~prePublishRan

\* C8: when exactly one of --input and --output is given, validateIO throws
\* its error before any side effect (dist kept, nothing built, no watcher,
\* no prePublish); when both or neither are given it does not throw.
C8_InputOutputTogether ==
    /\ (ExactlyOneOfIO /\ pc # "validateIO") =>
          /\ pc = "failed"
          /\ thrown = IOError
          /\ NoBuildSideEffect
    /\ ~ExactlyOneOfIO => thrown # IOError
    /\ (~ExactlyOneOfIO /\ pc = "failed") => thrown # "none"

C8_Witness ==
    /\ commander.release = "true"
    /\ commander.input = NotGiven
    /\ commander.output = "my/file.js"
    /\ pc = "failed"
    /\ thrown = IOError
    /\ ~distRemoved

\* C9 as stated: a --release run (no --watch, no --prepublish) whose bundles
\* are all built without error removes dist, builds every release config,
\* has the bundle check complete and then runs prePublish.
C9_ReleaseRunsEveryStep ==
    /\ (isRelease /\ ~isWatch /\ ~isPrePublish
            /\ built = NumReleaseConfigs /\ pc \in {"done", "failed"}) =>
          /\ distRemoved
          /\ bundleChecked
          /\ prePublishRan
    /\ (mode = "release" /\ prePublishRan) => bundleChecked

\* C10 as stated: one mode runs, by the precedence watch > prepublish >
\* release > single; with --prepublish and no --watch the run only
\* prepublishes: no build, no watcher, no bundle check, dist untouched.
C10_PrepublishOnlyPrepublishes ==
    /\ mode # "none" =>
          mode = (IF isWatch THEN "watch"
                  ELSE IF isPrePublish THEN "prepublish"
                  ELSE IF isRelease THEN "release"
                  ELSE "single")
    /\ (isPrePublish /\ ~isWatch) =>
          /\ ~buildCalled
          /\ built = 0
          /\ ~watching
          /\ ~checkCalled
          /\ ~distRemoved

====
